---- MODULE Spec2Model ----
(***************************************************************************)
(* The outbound API gateway of mtracker (internal/service/services.go):    *)
(* TokenBucket, the dual-window RateLimiter, the response cache and the    *)
(* SearchAnime / SearchTMDB queries of APIClient.                          *)
(*                                                                         *)
(* Time is the reading of time.Now() in whole seconds since the process    *)
(* started; a time.Duration is a number of seconds.                        *)
(***************************************************************************)
EXTENDS Integers, Sequences, FiniteSets, TLC

(***************************************************************************)
(* Bounds of the model.                                                    *)
(***************************************************************************)
\* largest maxTokens / refillRate given to NewTokenBucket in SpecBucket
MaxCap == 3
MaxRate == 3
\* last clock reading and number of allow() calls explored in SpecBucket
MaxTime == 7
MaxCalls == 6
\* last clock reading explored in SpecLimiter and in SpecWindow
LimMaxTime == 59
WinMaxTime == 11
\* number of Allow calls and last clock reading explored in SpecAllow
MaxAllowCalls == 5
AllowMaxTime == 1
\* number of queries explored in Spec
MaxQueries == 3
\* SpecCache: the last clock reading, the longest ttl, the cache calls made
CacheMaxTime == 2
MaxTTL == 2
MaxCacheCalls == 4
\* SpecSeq: the queries made
MaxSeqQueries == 4

(***************************************************************************)
(* Program constants: the limits NewAPIClient configures.                  *)
(***************************************************************************)
JikanSecondMax == 3
JikanSecondRate == 1
JikanMinuteMax == 60
JikanMinuteRate == 60
TmdbMax == 40
TmdbRate == 10

VARIABLES
    now,        \* the clock: what time.Now() returns
    bucket,     \* SpecBucket: one TokenBucket
    bstat,      \* SpecBucket: what the calls on bucket have done so far
    rl,         \* SpecLimiter: one RateLimiter
    rstat,      \* SpecLimiter: the last Allow call on rl, and the window watched
    rateLimiters, \* APIClient.rateLimiters: provider -> RateLimiter
    mu,         \* APIClient.mu: the goroutines holding it to read
    procs,      \* the goroutines calling into the APIClient: position and locals
    astat,      \* SpecAllow: the Allow calls completed and admitted, per provider
    cache,      \* APIClient.cache: cache key -> CacheEntry
    cacheMu,    \* APIClient.cacheMu: the goroutines holding it to read, and to write
    started     \* Spec: the number of queries started so far

vars == <<now, bucket, bstat, rl, rstat, rateLimiters, mu, procs, astat, cache, cacheMu, started>>
bvars == <<bucket, bstat>>
lvars == <<rl, rstat>>
cvars == <<cache, cacheMu, started, mu>>
gvars == <<rateLimiters, procs, astat, cvars>>

(***************************************************************************)
(* TokenBucket                                                             *)
(***************************************************************************)
min(a, b) == IF a < b THEN a ELSE b

\* a constructor that a bug would write: the bucket starts empty
NewTokenBucketEmpty(maxTokens, refillRate, t) ==
    [tokens     |-> 0,
     maxTokens  |-> maxTokens,
     lastRefill |-> t,
     refillRate |-> refillRate]

NewTokenBucket(maxTokens, refillRate, t) ==
    [tokens     |-> maxTokens,
     maxTokens  |-> maxTokens,
     lastRefill |-> t,
     refillRate |-> refillRate]

\* tokensToAdd := int(elapsed / t.refillRate), elapsed := now.Sub(t.lastRefill)
tokensToAdd(t, clock) == (clock - t.lastRefill) \div t.refillRate

\* the refill a bug would write: tokens are added but lastRefill stays behind
refillKeepLast(t, clock) ==
    IF tokensToAdd(t, clock) > 0
    THEN [t EXCEPT !.tokens = min(t.maxTokens, t.tokens + tokensToAdd(t, clock))]
    ELSE t

\* the refill a bug would write: the sum is not capped at maxTokens
refillNoCap(t, clock) ==
    IF tokensToAdd(t, clock) > 0
    THEN [t EXCEPT !.tokens = t.tokens + tokensToAdd(t, clock),
                   !.lastRefill = clock]
    ELSE t

\* the refill a bug would write: lastRefill is set at every call
refillAlwaysStamp(t, clock) ==
    [t EXCEPT !.tokens = min(t.maxTokens, t.tokens + tokensToAdd(t, clock)),
              !.lastRefill = clock]

\* the first half of allow(): "Refill tokens"
refill(t, clock) ==
    IF tokensToAdd(t, clock) > 0
    THEN [t EXCEPT !.tokens = min(t.maxTokens, t.tokens + tokensToAdd(t, clock)),
                   !.lastRefill = clock]
    ELSE t

\* the second half of allow(): "Check if we can make a request"
take(t) ==
    IF t.tokens > 0
    THEN [bucket |-> [t EXCEPT !.tokens = t.tokens - 1], ok |-> TRUE]
    ELSE [bucket |-> t, ok |-> FALSE]

\* TokenBucket.allow at clock reading clock: the bucket afterwards and the result
allow(t, clock) == take(refill(t, clock))

(***************************************************************************)
(* RateLimiter                                                             *)
(***************************************************************************)
Free == 0

\* &RateLimiter{secondLimiter: ..., minuteLimiter: ...}; the two buckets are
\* built by two calls of NewTokenBucket, each reading the clock (t1 <= t2)
RateLimiterOf(sMax, sRate, mMax, mRate, t1, t2) ==
    [secondLimiter |-> NewTokenBucket(sMax, sRate, t1),
     minuteLimiter |-> NewTokenBucket(mMax, mRate, t2),
     mu            |-> Free]

NewRateLimiter(maxTokens, refillRate, t1, t2) ==
    RateLimiterOf(maxTokens, refillRate, maxTokens, refillRate, t1, t2)

\* rateLimiters["jikan"] and rateLimiters["tmdb"] of NewAPIClient
\* a jikan limiter that a bug would build: with the capacities of tmdb
JikanLimiterAsTmdb(t1, t2) == NewRateLimiter(TmdbMax, TmdbRate, t1, t2)

JikanLimiter(t1, t2) ==
    RateLimiterOf(JikanSecondMax, JikanSecondRate, JikanMinuteMax, JikanMinuteRate, t1, t2)

TmdbLimiter(t1, t2) == NewRateLimiter(TmdbMax, TmdbRate, t1, t2)

\* the Allow a bug would write: && for ||, so that a call the second bucket
\* admits is admitted without asking the minute bucket
AllowSecondOnly(r, c1, c2) ==
    LET s == allow(r.secondLimiter, c1) IN
    [limiter |-> [r EXCEPT !.secondLimiter = s.bucket], ok |-> s.ok]

\* The body of RateLimiter.Allow, run under r.mu: !second.allow() || !minute.allow().
\* c1 and c2 are the clock readings of the two allow() calls; the minute bucket
\* is asked only when the second bucket admitted (|| short-circuits).
\* an Allow that a bug would write: it changes the capacity of a bucket
AllowResizing(r, c1, c2) ==
    [limiter |-> [r EXCEPT !.secondLimiter.maxTokens = 1], ok |-> TRUE]

Allow(r, c1, c2) ==
    LET s == allow(r.secondLimiter, c1) IN
    IF ~s.ok
    THEN [limiter |-> [r EXCEPT !.secondLimiter = s.bucket], ok |-> FALSE]
    ELSE LET m == allow(r.minuteLimiter, c2) IN
         [limiter |-> [r EXCEPT !.secondLimiter = s.bucket,
                                !.minuteLimiter = m.bucket],
          ok |-> m.ok]

\* the values of variables a specification does not use
NoCall == [pre |-> NewTokenBucket(1, 1, 0), at |-> -1, ok |-> FALSE]
NoBStat == [t0 |-> 0, calls |-> 0, admitted |-> 0, last |-> NoCall]
NoLimiter == NewRateLimiter(1, 1, 0, 0)
NoTake == [second |-> 0, minute |-> 0]
NoStat == [called |-> FALSE, ok |-> FALSE, took |-> NoTake, horizon |-> 0,
           winStart |-> -1, winCount |-> 0]

(***************************************************************************)
(* APIClient: the registry of limiters and the goroutines that call in.    *)
(***************************************************************************)
Procs == {1, 2}
Providers == {"jikan", "tmdb"}

\* rateLimiters as NewAPIClient builds it at clock reading t
NewRateLimiters(t) ==
    [p \in Providers |-> IF p = "jikan" THEN JikanLimiter(t, t) ELSE TmdbLimiter(t, t)]

NoStage == [bucket |-> NoCall.pre, ok |-> FALSE]

\* the dynamic type and the content of a cached or returned value
NoData == [type |-> "nil", items |-> "none"]
NoEntry == [Data |-> NoData, ExpiresAt |-> 0]
NoRet == [payload |-> NoData, err |-> "none"]

\* cache: make(map[string]*CacheEntry)
EmptyCache == [k \in {} |-> NoEntry]

NoLocks == [readers |-> {}, writer |-> Free]

\* the last call completed on a cache key
NoOp == [op |-> "none", data |-> NoData, at |-> 0, ttl |-> 0]
NoSeen == [last |-> NoOp, expired |-> FALSE]

\* a goroutine that is in no call
IdleProc ==
    [pc       |-> "idle",
     op       |-> "none",
     provider |-> "none",
     query    |-> "none",
     mediaType |-> "none",
     key      |-> <<>>,        \* cacheKey
     found    |-> FALSE,       \* getCache's second result
     data     |-> NoData,      \* getCache's first result, then the decoded response
     outcome  |-> "none",      \* what the HTTP request came to
     ret      |-> NoRet,       \* what the query returned
     path     |-> <<>>,        \* the parts of the gateway the query went through
     stage    |-> NoStage,     \* allow(): the values computed from what was read
     allowed  |-> FALSE,       \* the result of limiter.Allow()
     snap     |-> NoLimiter,   \* the limiter as it was when r.mu was taken
     c1       |-> 0,           \* the clock readings of the two allow() calls
     c2       |-> 0,
     ttl      |-> 0,           \* setCache's ttl
     seen     |-> NoSeen,      \* what a cache call found of its key when it began
     others   |-> {}]          \* the cache calls on the same key made meanwhile

NoAStat == [done |-> [p \in Providers |-> 0], admitted |-> [p \in Providers |-> 0]]

GatewayIdle ==
    /\ rateLimiters = NewRateLimiters(0)
    /\ procs = [self \in Procs |-> IdleProc]
    /\ astat = NoAStat
    /\ cache = EmptyCache
    /\ cacheMu = NoLocks
    /\ mu = {}
    /\ started = 0

\* n calls of Allow one after the other at clock reading c: the limiter
\* afterwards and the number admitted
RECURSIVE AllowTimes(_, _, _)
AllowTimes(r, n, c) ==
    IF n = 0 THEN [limiter |-> r, admitted |-> 0]
    ELSE LET one  == Allow(r, c, c)
             rest == AllowTimes(one.limiter, n - 1, c)
         IN [limiter |-> rest.limiter,
             admitted |-> rest.admitted + (IF one.ok THEN 1 ELSE 0)]

(***************************************************************************)
(* RateLimiter.Allow, statement by statement.  allow() reads the bucket    *)
(* and the clock, computes, and writes the bucket back; r.mu is what       *)
(* keeps two callers from doing so at once.                                *)
(***************************************************************************)
\* a Lock that a bug would make: it never waits
CanLockAlways(m) == TRUE

\* sync.Mutex.Lock returns only when the mutex is free
CanLock(m) == m = Free

Goto(self, label) == [procs[self] EXCEPT !.pc = label]

\* r.mu.Lock()
AllowLock(self) ==
    LET p == procs[self].provider IN
    /\ procs[self].pc = "al_lock"
    /\ CanLock(rateLimiters[p].mu)
    /\ rateLimiters' = [rateLimiters EXCEPT ![p].mu = self]
    /\ procs' = [procs EXCEPT ![self] =
            [@ EXCEPT !.pc = "al_second_read", !.snap = rateLimiters[p],
                      !.path = Append(@, "limiter")]]
    /\ UNCHANGED <<now, bvars, lvars, astat, cvars>>

\* r.secondLimiter.allow(): read the clock and the bucket, compute
SecondRead(self) ==
    LET p == procs[self].provider IN
    /\ procs[self].pc = "al_second_read"
    /\ procs' = [procs EXCEPT ![self] =
            [@ EXCEPT !.pc = "al_second_write", !.c1 = now, !.c2 = now,
                      !.stage = allow(rateLimiters[p].secondLimiter, now)]]
    /\ UNCHANGED <<now, bvars, lvars, rateLimiters, astat, cvars>>

\* r.secondLimiter.allow(): store tokens and lastRefill; false ends Allow
SecondWrite(self) ==
    LET p == procs[self].provider IN
    /\ procs[self].pc = "al_second_write"
    /\ rateLimiters' = [rateLimiters EXCEPT ![p].secondLimiter = procs[self].stage.bucket]
    /\ procs' = [procs EXCEPT ![self] =
            IF procs[self].stage.ok
            THEN [@ EXCEPT !.pc = "al_minute_read"]
            ELSE [@ EXCEPT !.pc = "al_unlock", !.allowed = FALSE]]
    /\ UNCHANGED <<now, bvars, lvars, astat, cvars>>

\* r.minuteLimiter.allow(): read the clock and the bucket, compute
MinuteRead(self) ==
    LET p == procs[self].provider IN
    /\ procs[self].pc = "al_minute_read"
    /\ procs' = [procs EXCEPT ![self] =
            [@ EXCEPT !.pc = "al_minute_write", !.c2 = now,
                      !.stage = allow(rateLimiters[p].minuteLimiter, now)]]
    /\ UNCHANGED <<now, bvars, lvars, rateLimiters, astat, cvars>>

\* r.minuteLimiter.allow(): store tokens and lastRefill; its result is Allow's
MinuteWrite(self) ==
    LET p == procs[self].provider IN
    /\ procs[self].pc = "al_minute_write"
    /\ rateLimiters' = [rateLimiters EXCEPT ![p].minuteLimiter = procs[self].stage.bucket]
    /\ procs' = [procs EXCEPT ![self] =
            [@ EXCEPT !.pc = "al_unlock", !.allowed = procs[self].stage.ok]]
    /\ UNCHANGED <<now, bvars, lvars, astat, cvars>>

\* a return that a bug would make: r.mu is not released
AllowNoUnlock(self) ==
    /\ procs[self].pc = "al_unlock"
    /\ procs' = [procs EXCEPT ![self] = Goto(self, "al_ret")]
    /\ UNCHANGED <<now, bvars, lvars, rateLimiters, astat, cvars>>

\* defer r.mu.Unlock()
AllowUnlock(self) ==
    LET p == procs[self].provider IN
    /\ procs[self].pc = "al_unlock"
    /\ rateLimiters' = [rateLimiters EXCEPT ![p].mu = Free]
    /\ procs' = [procs EXCEPT ![self] = Goto(self, "al_ret")]
    /\ UNCHANGED <<now, bvars, lvars, astat, cvars>>

AllowStep(self) ==
    \/ AllowLock(self)
    \/ SecondRead(self)
    \/ SecondWrite(self)
    \/ MinuteRead(self)
    \/ MinuteWrite(self)
    \/ AllowUnlock(self)

(***************************************************************************)
(* The response cache: getCache and setCache, statement by statement.      *)
(* cacheMu is a sync.RWMutex: RLock waits while a writer holds it or a     *)
(* goroutine is waiting in Lock; Lock waits until nobody holds it.         *)
(***************************************************************************)
\* fmt.Sprintf("jikan:%s", query) and fmt.Sprintf("tmdb:%s:%s", mediaType, query)
JikanKey(query) == <<"jikan", query>>
TmdbKey(mediaType, query) == <<"tmdb", mediaType, query>>

\* time.Hour, the ttl both queries pass to setCache
CacheTTL == 3600

WaitingToWrite == {q \in Procs : procs[q].pc \in {"gc_lock", "sc_lock"}}

CanRLock == cacheMu.writer = Free /\ WaitingToWrite = {}
CanWLock == cacheMu.writer = Free /\ cacheMu.readers = {}

\* expiry checks that a bug would make: nothing expires; everything has
ExpiredNever(entry, clock) == FALSE
ExpiredAlways(entry, clock) == TRUE

\* time.Now().After(entry.ExpiresAt)
Expired(entry, clock) == clock > entry.ExpiresAt

\* deletions that a bug would make: nothing is removed; everything is
DeleteNothing(c, key) == c
DeleteAll(c, key) == [k \in {} |-> c[k]]

\* delete(t.cache, key)
Delete(c, key) == [k \in DOMAIN c \ {key} |-> c[k]]

\* a store that a bug would make: the ttl is not added
StoreNoTTL(c, key, data, clock, ttl) ==
    [k \in DOMAIN c \cup {key} |->
        IF k = key THEN [Data |-> data, ExpiresAt |-> clock] ELSE c[k]]

\* a store that a bug would make: an entry already there is kept
StoreIfAbsent(c, key, data, clock, ttl) ==
    IF key \in DOMAIN c THEN c
    ELSE [k \in DOMAIN c \cup {key} |->
            IF k = key THEN [Data |-> data, ExpiresAt |-> clock + ttl] ELSE c[k]]

\* t.cache[key] = &CacheEntry{Data: data, ExpiresAt: time.Now().Add(ttl)}
Store(c, key, data, clock, ttl) ==
    [k \in DOMAIN c \cup {key} |->
        IF k = key THEN [Data |-> data, ExpiresAt |-> clock + ttl] ELSE c[k]]

\* the parts of the gateway a query goes through, in the order it does
Via(self, part) == Append(procs[self].path, part)

\* getCache: t.cacheMu.RLock(); entry, exists := t.cache[key]; the expiry check
GcRLock(self) ==
    LET key == procs[self].key IN
    /\ procs[self].pc = "gc_rlock"
    /\ CanRLock
    /\ cacheMu' = [cacheMu EXCEPT !.readers = @ \cup {self}]
    /\ procs' = [procs EXCEPT ![self] =
            IF key \notin DOMAIN cache
            THEN [@ EXCEPT !.pc = "gc_ret", !.path = Via(self, "cache"),
                           !.found = FALSE, !.data = NoData]
            ELSE IF Expired(cache[key], now)
            THEN [@ EXCEPT !.pc = "gc_runlock", !.path = Via(self, "cache")]
            ELSE [@ EXCEPT !.pc = "gc_ret", !.path = Via(self, "cache"),
                           !.found = TRUE, !.data = cache[key].Data]]
    /\ UNCHANGED <<now, bvars, lvars, rateLimiters, mu, astat, cache, started>>

\* an expired branch that a bug would write: the read lock is kept while the
\* write lock is asked for
GcNoRUnlock(self) ==
    /\ procs[self].pc = "gc_runlock"
    /\ procs' = [procs EXCEPT ![self] = Goto(self, "gc_lock")]
    /\ UNCHANGED <<now, bvars, lvars, rateLimiters, mu, astat, cache, cacheMu, started>>

\* getCache, expired entry: t.cacheMu.RUnlock()
GcRUnlock(self) ==
    /\ procs[self].pc = "gc_runlock"
    /\ cacheMu' = [cacheMu EXCEPT !.readers = @ \ {self}]
    /\ procs' = [procs EXCEPT ![self] = Goto(self, "gc_lock")]
    /\ UNCHANGED <<now, bvars, lvars, rateLimiters, mu, astat, cache, started>>

\* getCache, expired entry: t.cacheMu.Lock()
GcLock(self) ==
    /\ procs[self].pc = "gc_lock"
    /\ CanWLock
    /\ cacheMu' = [cacheMu EXCEPT !.writer = self]
    /\ procs' = [procs EXCEPT ![self] = Goto(self, "gc_delete")]
    /\ UNCHANGED <<now, bvars, lvars, rateLimiters, mu, astat, cache, started>>

\* getCache, expired entry: delete(t.cache, key); t.cacheMu.Unlock()
GcDelete(self) ==
    /\ procs[self].pc = "gc_delete"
    /\ cache' = Delete(cache, procs[self].key)
    /\ cacheMu' = [cacheMu EXCEPT !.writer = Free]
    /\ procs' = [procs EXCEPT ![self] =
            [@ EXCEPT !.pc = "gc_rlock2",
                      !.path = IF cache' # cache THEN Via(self, "evict") ELSE @]]
    /\ UNCHANGED <<now, bvars, lvars, rateLimiters, mu, astat, started>>

\* getCache, expired entry: t.cacheMu.RLock(), then return nil, false
GcRLock2(self) ==
    /\ procs[self].pc = "gc_rlock2"
    /\ CanRLock
    /\ cacheMu' = [cacheMu EXCEPT !.readers = @ \cup {self}]
    /\ procs' = [procs EXCEPT ![self] =
            [@ EXCEPT !.pc = "gc_ret", !.found = FALSE, !.data = NoData]]
    /\ UNCHANGED <<now, bvars, lvars, rateLimiters, mu, astat, cache, started>>

\* the type a query asserts of the value it finds cached
TypeOf(provider) == IF provider = "jikan" THEN "JikanAnime" ELSE "TMDBMedia"

\* a check after the lookup that a bug would make: a hit is not used
AfterCacheIgnoreHit(hit) == "rl_lookup"

\* "if cached, exists := t.getCache(cacheKey); exists { if ..., ok { return"
AfterCache(hit) == IF hit THEN "done" ELSE "rl_lookup"

\* getCache: the deferred t.cacheMu.RUnlock(); the query returns what was
\* found when it is of the type it expects
GcReturn(self) ==
    LET me  == procs[self]
        hit == me.found /\ me.data.type = TypeOf(me.provider)
    IN
    /\ me.pc = "gc_ret"
    /\ cacheMu' = [cacheMu EXCEPT !.readers = @ \ {self}]
    /\ procs' = [procs EXCEPT ![self] =
            IF AfterCache(hit) = "done"
            THEN [@ EXCEPT !.pc = "done", !.ret = [payload |-> me.data, err |-> "nil"]]
            ELSE [@ EXCEPT !.pc = AfterCache(hit)]]
    /\ UNCHANGED <<now, bvars, lvars, rateLimiters, mu, astat, cache, started>>

\* setCache: t.cacheMu.Lock()
ScLock(self) ==
    /\ procs[self].pc = "sc_lock"
    /\ CanWLock
    /\ cacheMu' = [cacheMu EXCEPT !.writer = self]
    /\ procs' = [procs EXCEPT ![self] = Goto(self, "sc_store")]
    /\ UNCHANGED <<now, bvars, lvars, rateLimiters, mu, astat, cache, started>>

\* setCache: t.cache[key] = &CacheEntry{...}; the deferred t.cacheMu.Unlock();
\* the query returns the result
ScStore(self) ==
    /\ procs[self].pc = "sc_store"
    /\ cache' = Store(cache, procs[self].key, procs[self].data, now, CacheTTL)
    /\ cacheMu' = [cacheMu EXCEPT !.writer = Free]
    /\ procs' = [procs EXCEPT ![self] =
            [@ EXCEPT !.pc = "done", !.path = Via(self, "store"),
                      !.ret = [payload |-> procs[self].data, err |-> "nil"]]]
    /\ UNCHANGED <<now, bvars, lvars, rateLimiters, mu, astat, started>>

CacheStep(self) ==
    \/ GcRLock(self)
    \/ GcRUnlock(self)
    \/ GcLock(self)
    \/ GcDelete(self)
    \/ GcRLock2(self)
    \/ GcReturn(self)
    \/ ScLock(self)
    \/ ScStore(self)

(***************************************************************************)
(* Spec: SearchAnime and SearchTMDB, called by the goroutines in any       *)
(* interleaving while time passes.                                         *)
(***************************************************************************)
Queries == {"q1"}
MediaTypes == {"movie", "book"}

\* what httpClient.Get and the decoding of the body can come to: a transport
\* error, a body that does not decode, a decoded answer, and a decoded
\* answer that came with a failure status and holds no results
Outcomes == {"transport_error", "decode_error", "ok", "status_error"}
Bodies == {"r1", "r2"}

\* the clock readings explored: the second of construction, and the last
\* second of an entry cached then and the first after its expiry
Clock == {0, CacheTTL, CacheTTL + 1}

\* the queries per provider that may have been admitted in the second of
\* construction, their requests failing in transport, before the first state:
\* none, or all but the last the limiter admits
Bursts == {[jikan |-> 0, tmdb |-> 0],
           [jikan |-> JikanSecondMax - 1, tmdb |-> TmdbMax - 1]}

Init ==
    /\ now = 0
    /\ \E b \in Bursts :
          rateLimiters = [p \in Providers |->
                            AllowTimes(NewRateLimiters(0)[p], b[p], 0).limiter]
    /\ procs = [self \in Procs |-> IdleProc]
    /\ astat = NoAStat
    /\ cache = EmptyCache
    /\ cacheMu = NoLocks
    /\ mu = {}
    /\ started = 0
    /\ bucket = NoCall.pre
    /\ bstat = NoBStat
    /\ rl = NoLimiter
    /\ rstat = NoStat

\* a goroutine that is in no query starts one, with fresh locals
Begin(self, op, provider, query, mediaType, key) ==
    /\ procs[self].pc = "idle"
    /\ started < MaxQueries
    /\ started' = started + 1
    /\ procs' = [procs EXCEPT ![self] =
            [IdleProc EXCEPT !.pc = "gc_rlock", !.op = op, !.provider = provider,
                             !.query = query, !.mediaType = mediaType, !.key = key]]
    /\ UNCHANGED <<now, bvars, lvars, rateLimiters, mu, astat, cache, cacheMu>>

\* SearchAnime(query): cacheKey := fmt.Sprintf("jikan:%s", query)
StartAnime(self, query) ==
    Begin(self, "SearchAnime", "jikan", query, "none", JikanKey(query))

\* a SearchTMDB that a bug would write: it asks for the jikan limiter
StartTMDBOnJikan(self, query, mediaType) ==
    Begin(self, "SearchTMDB", "jikan", query, mediaType, TmdbKey(mediaType, query))

\* SearchTMDB(query, mediaType): cacheKey := fmt.Sprintf("tmdb:%s:%s", ...)
StartTMDB(self, query, mediaType) ==
    Begin(self, "SearchTMDB", "tmdb", query, mediaType, TmdbKey(mediaType, query))

\* t.mu.RLock(); limiter, exists := t.rateLimiters[...].  Nothing ever takes
\* t.mu to write, so RLock never waits.
LimiterLookup(self) ==
    /\ procs[self].pc = "rl_lookup"
    /\ mu' = mu \cup {self}
    /\ procs' = [procs EXCEPT ![self] = Goto(self, "rl_runlock")]
    /\ UNCHANGED <<now, bvars, lvars, rateLimiters, astat, cache, cacheMu, started>>

\* t.mu.RUnlock(); "if !exists { return nil, fmt.Errorf("rate limiter not
\* configured ..."
LimiterRUnlock(self) ==
    /\ procs[self].pc = "rl_runlock"
    /\ mu' = mu \ {self}
    /\ procs' = [procs EXCEPT ![self] =
            IF procs[self].provider \in DOMAIN rateLimiters
            THEN [@ EXCEPT !.pc = "al_enter"]
            ELSE [@ EXCEPT !.pc = "done",
                           !.ret = [payload |-> NoData, err |-> "not_configured"]]]
    /\ UNCHANGED <<now, bvars, lvars, rateLimiters, astat, cache, cacheMu, started>>

\* limiter.Allow(): r.mu.Lock() and the function body, which nothing can
\* interleave with while r.mu is held
AllowEnter(self) ==
    LET p == procs[self].provider
        r == Allow(rateLimiters[p], now, now)
    IN
    /\ procs[self].pc = "al_enter"
    /\ CanLock(rateLimiters[p].mu)
    /\ rateLimiters' = [rateLimiters EXCEPT ![p] = [r.limiter EXCEPT !.mu = self]]
    /\ procs' = [procs EXCEPT ![self] =
            [@ EXCEPT !.pc = "al_unlock", !.allowed = r.ok,
                      !.path = Via(self, "limiter")]]
    /\ UNCHANGED <<now, bvars, lvars, astat, cvars>>

\* a check of Allow's result that a bug would make: a rejected query goes on
AfterAllowAnyway(allowed) == "route"

\* "if !limiter.Allow() { return nil, fmt.Errorf("rate limit exceeded ..."
AfterAllow(allowed) == IF allowed THEN "route" ELSE "done"

\* SearchTMDB's switch mediaType: the endpoint, or none
Endpoint(mediaType) ==
    CASE mediaType = "movie" -> "movie"
      [] mediaType = "tv"    -> "tv"
      [] OTHER               -> "none"

\* after Allow: the rate-limit error, SearchTMDB's unsupported media type
\* error, or on to the request
Admission(self) ==
    LET me == procs[self] IN
    /\ me.pc = "al_ret"
    /\ me.op \in {"SearchAnime", "SearchTMDB"}
    /\ procs' = [procs EXCEPT ![self] =
            IF AfterAllow(me.allowed) = "done"
            THEN [@ EXCEPT !.pc = "done",
                           !.ret = [payload |-> NoData, err |-> "rate_limit"]]
            ELSE IF me.op = "SearchTMDB" /\ Endpoint(me.mediaType) = "none"
            THEN [@ EXCEPT !.pc = "done",
                           !.ret = [payload |-> NoData, err |-> "unsupported"]]
            ELSE [@ EXCEPT !.pc = "http"]]
    /\ UNCHANGED <<now, bvars, lvars, rateLimiters, astat, cvars>>

\* a handling of the response that a bug would make: a body that does not
\* decode is cached like a decoded one
AfterHttpCacheAll(outcome) ==
    IF outcome = "transport_error" THEN "done" ELSE "sc_lock"

\* "if err != nil { return nil, err }" after Get and after Decode
AfterHttp(outcome) ==
    IF outcome \in {"transport_error", "decode_error"} THEN "done" ELSE "sc_lock"

\* searchResp.Data / searchResp.Results of a decoded body
Decoded(provider, outcome, body) ==
    [type |-> TypeOf(provider), items |-> IF outcome = "ok" THEN body ELSE "empty"]

\* t.httpClient.Get(url) and json.NewDecoder(resp.Body).Decode(&searchResp)
HttpGet(self) ==
    LET me == procs[self] IN
    /\ me.pc = "http"
    /\ \E outcome \in Outcomes, body \in Bodies :
        /\ outcome # "ok" => body = "r1"
        /\ procs' = [procs EXCEPT ![self] =
                IF AfterHttp(outcome) = "done"
                THEN [@ EXCEPT !.pc = "done", !.outcome = outcome,
                               !.path = Via(self, "network"),
                               !.ret = [payload |-> NoData, err |-> outcome]]
                ELSE [@ EXCEPT !.pc = AfterHttp(outcome), !.outcome = outcome,
                               !.path = Via(self, "network"),
                               !.data = Decoded(me.provider, outcome, body)]]
    /\ UNCHANGED <<now, bvars, lvars, rateLimiters, astat, cvars>>

\* a return that a bug would make: the tokens of a query whose request
\* failed are given back
ReturnRefund(self) ==
    LET p == procs[self].provider
        failed == procs[self].outcome \in {"transport_error", "decode_error"}
    IN
    /\ procs[self].pc = "done"
    /\ procs' = [procs EXCEPT ![self] = IdleProc]
    /\ rateLimiters' =
            IF failed
            THEN [rateLimiters EXCEPT ![p].secondLimiter.tokens = @ + 1,
                                      ![p].minuteLimiter.tokens = @ + 1]
            ELSE rateLimiters
    /\ UNCHANGED <<now, bvars, lvars, astat, cvars>>

\* the caller has the result; the goroutine is free for another query
Return(self) ==
    /\ procs[self].pc = "done"
    /\ procs' = [procs EXCEPT ![self] = IdleProc]
    /\ UNCHANGED <<now, bvars, lvars, rateLimiters, astat, cvars>>

\* time passes
Tick ==
    \E t \in Clock :
        /\ t > now
        /\ now' = t
        /\ UNCHANGED <<bvars, lvars, gvars>>

\* A query that has returned is seen in a state of its own: the caller takes
\* the result before any other goroutine moves.
Returned == {q \in Procs : procs[q].pc = "done"}

Next ==
    \/ \E self \in Procs : Return(self)
    \/ /\ Returned = {}
       /\ \/ \E self \in Procs, q \in Queries : StartAnime(self, q)
          \/ \E self \in Procs, q \in Queries, mt \in MediaTypes : StartTMDB(self, q, mt)
          \/ \E self \in Procs : CacheStep(self)
          \/ \E self \in Procs : LimiterLookup(self)
          \/ \E self \in Procs : LimiterRUnlock(self)
          \/ \E self \in Procs : AllowEnter(self)
          \/ \E self \in Procs : AllowUnlock(self)
          \/ \E self \in Procs : Admission(self)
          \/ \E self \in Procs : HttpGet(self)
          \/ Tick

Spec == Init /\ [][Next]_vars

(***************************************************************************)
(* FairSpec: the queries of Spec under fair scheduling.  A goroutine that   *)
(* can take its next step does so in the end, a request in progress        *)
(* returns, and a caller takes a result that is there.  Nothing obliges a  *)
(* goroutine to start a query, or time to pass.  The first state is the    *)
(* one after a first query: SearchAnime("q1"), made and answered in the    *)
(* second of construction.                                                 *)
(***************************************************************************)
InitFair ==
    /\ now = 0
    /\ rateLimiters = [NewRateLimiters(0) EXCEPT
                            !["jikan"] = AllowTimes(@, 1, 0).limiter]
    /\ mu = {}
    /\ procs = [self \in Procs |-> IdleProc]
    /\ astat = NoAStat
    /\ cache = Store(EmptyCache, JikanKey("q1"), Decoded("jikan", "ok", "r1"), 0, CacheTTL)
    /\ cacheMu = NoLocks
    /\ started = 1
    /\ bucket = NoCall.pre
    /\ bstat = NoBStat
    /\ rl = NoLimiter
    /\ rstat = NoStat

Step(self) ==
    /\ Returned = {}
    /\ \/ CacheStep(self)
       \/ LimiterLookup(self)
       \/ LimiterRUnlock(self)
       \/ AllowEnter(self)
       \/ AllowUnlock(self)
       \/ Admission(self)
       \/ HttpGet(self)

Fairness == \A self \in Procs : WF_vars(Return(self)) /\ WF_vars(Step(self))

FairSpec == InitFair /\ [][Next]_vars /\ Fairness

(***************************************************************************)
(* SpecSeq: one caller makes SearchAnime queries one after the other on a  *)
(* new APIClient, while time passes.  astat is the list of the queries     *)
(* that have returned: key, result, network calls made, and time.          *)
(***************************************************************************)
Caller == 1
SeqQueries == <<"q1", "q2", "q3", "q4">>

\* The query strings are names only: the caller asks for one it has asked
\* for before, or for the first it has not yet asked for.
Asked == {astat[i].key : i \in DOMAIN astat}
Askable == {n \in DOMAIN SeqQueries : n <= Cardinality(Asked) + 1}

\* the clock readings explored: the second of construction, the next, and
\* the first after the expiry of what was cached in those
SeqClock == {0, 1, CacheTTL + 1}

InitSeq ==
    /\ now = 0
    /\ rateLimiters = NewRateLimiters(0)
    /\ mu = {}
    /\ procs = [self \in Procs |-> IdleProc]
    /\ astat = <<>>
    /\ cache = EmptyCache
    /\ cacheMu = NoLocks
    /\ started = 0
    /\ bucket = NoCall.pre
    /\ bstat = NoBStat
    /\ rl = NoLimiter
    /\ rstat = NoStat

\* the caller calls SearchAnime(query)
SeqStartAnime(query) ==
    /\ procs[Caller].pc = "idle"
    /\ started < MaxSeqQueries
    /\ started' = started + 1
    /\ procs' = [procs EXCEPT ![Caller] =
            [IdleProc EXCEPT !.pc = "gc_rlock", !.op = "SearchAnime", !.provider = "jikan",
                             !.query = query, !.key = JikanKey(query)]]
    /\ UNCHANGED <<now, bvars, lvars, rateLimiters, mu, astat, cache, cacheMu>>

\* the caller has the result
SeqReturn ==
    LET me == procs[Caller] IN
    /\ me.pc = "done"
    /\ procs' = [procs EXCEPT ![Caller] = IdleProc]
    /\ astat' = Append(astat, [key |-> me.key, ret |-> me.ret, at |-> now,
                               calls |-> Cardinality({i \in DOMAIN me.path :
                                                        me.path[i] = "network"})])
    /\ UNCHANGED <<now, bvars, lvars, rateLimiters, cvars>>

\* time passes
SeqTick ==
    \E t \in SeqClock :
        /\ t > now
        /\ now' = t
        /\ UNCHANGED <<bvars, lvars, gvars>>

\* As in Spec, the caller takes a result before anything else moves.
NextSeq ==
    \/ SeqReturn
    \/ /\ Returned = {}
       /\ \/ \E n \in Askable : SeqStartAnime(SeqQueries[n])
          \/ CacheStep(Caller)
          \/ LimiterLookup(Caller)
          \/ LimiterRUnlock(Caller)
          \/ AllowEnter(Caller)
          \/ AllowUnlock(Caller)
          \/ Admission(Caller)
          \/ HttpGet(Caller)
          \/ SeqTick

SpecSeq == InitSeq /\ [][NextSeq]_vars

(***************************************************************************)
(* SpecCache: the goroutines call getCache and setCache on the cache of a  *)
(* new APIClient, with any key, payload and positive ttl, in any           *)
(* interleaving while time passes.  astat keeps, per key, the last call    *)
(* completed on it.                                                        *)
(***************************************************************************)
CacheKeys == {JikanKey("q1"), TmdbKey("movie", "q1")}
Payloads == {Decoded("jikan", "ok", b) : b \in Bodies}
TTLs == 1..MaxTTL

InitCache ==
    /\ now = 0
    /\ rateLimiters = NewRateLimiters(0)
    /\ procs = [self \in Procs |-> IdleProc]
    /\ astat = [k \in CacheKeys |-> NoOp]
    /\ cache = EmptyCache
    /\ cacheMu = NoLocks
    /\ mu = {}
    /\ started = 0
    /\ bucket = NoCall.pre
    /\ bstat = NoBStat
    /\ rl = NoLimiter
    /\ rstat = NoStat

\* the cache calls in progress on a key, other than self's
Meanwhile(self, key) ==
    {procs[q].op : q \in {r \in Procs \ {self} : procs[r].pc # "idle" /\ procs[r].key = key}}

\* a goroutine calls getCache or setCache; the calls in progress on the same
\* key are noted on both sides
CallCache(self, op, pc, key, data, ttl) ==
    /\ procs[self].pc = "idle"
    /\ started < MaxCacheCalls
    /\ started' = started + 1
    /\ procs' = [q \in Procs |->
            IF q = self
            THEN [IdleProc EXCEPT !.pc = pc, !.op = op, !.key = key, !.data = data,
                     !.ttl = ttl, !.others = Meanwhile(self, key),
                     !.seen = [last |-> astat[key],
                               expired |-> key \in DOMAIN cache
                                             /\ Expired(cache[key], now)]]
            ELSE IF procs[q].pc # "idle" /\ procs[q].key = key
            THEN [procs[q] EXCEPT !.others = @ \cup {op}]
            ELSE procs[q]]
    /\ UNCHANGED <<now, bvars, lvars, rateLimiters, mu, astat, cache, cacheMu>>

\* getCache(key)
CallGetCache(self, key) == CallCache(self, "getCache", "gc_rlock", key, NoData, 0)

\* setCache(key, data, ttl)
CallSetCache(self, key, data, ttl) == CallCache(self, "setCache", "sc_lock", key, data, ttl)

\* getCache: the deferred t.cacheMu.RUnlock(), and the return
GetCacheReturn(self) ==
    LET me == procs[self] IN
    /\ me.pc = "gc_ret"
    /\ me.op = "getCache"
    /\ cacheMu' = [cacheMu EXCEPT !.readers = @ \ {self}]
    /\ procs' = [procs EXCEPT ![self] =
            [@ EXCEPT !.pc = "done", !.ret = [payload |-> me.data, err |-> "none"]]]
    /\ astat' = [astat EXCEPT ![me.key] = [NoOp EXCEPT !.op = "getCache"]]
    /\ UNCHANGED <<now, bvars, lvars, rateLimiters, mu, cache, started>>

\* setCache: t.cache[key] = &CacheEntry{...}, the deferred
\* t.cacheMu.Unlock(), and the return
SetCacheStore(self) ==
    LET me == procs[self] IN
    /\ me.pc = "sc_store"
    /\ me.op = "setCache"
    /\ cache' = Store(cache, me.key, me.data, now, me.ttl)
    /\ cacheMu' = [cacheMu EXCEPT !.writer = Free]
    /\ procs' = [procs EXCEPT ![self] = [@ EXCEPT !.pc = "done", !.path = Via(self, "store")]]
    /\ astat' = [astat EXCEPT ![me.key] =
            [op |-> "setCache", data |-> me.data, at |-> now, ttl |-> me.ttl]]
    /\ UNCHANGED <<now, bvars, lvars, rateLimiters, mu, started>>

\* time passes
CacheTick ==
    /\ now < CacheMaxTime
    /\ now' = now + 1
    /\ UNCHANGED <<bvars, lvars, gvars>>

NextCache ==
    \/ \E self \in Procs : Return(self)
    \/ /\ Returned = {}
       /\ \/ \E self \in Procs, k \in CacheKeys : CallGetCache(self, k)
          \/ \E self \in Procs, k \in CacheKeys, d \in Payloads, ttl \in TTLs :
                CallSetCache(self, k, d, ttl)
          \/ \E self \in Procs : GcRLock(self)
          \/ \E self \in Procs : GcRUnlock(self)
          \/ \E self \in Procs : GcLock(self)
          \/ \E self \in Procs : GcDelete(self)
          \/ \E self \in Procs : GcRLock2(self)
          \/ \E self \in Procs : GetCacheReturn(self)
          \/ \E self \in Procs : ScLock(self)
          \/ \E self \in Procs : SetCacheStore(self)
          \/ CacheTick

SpecCache == InitCache /\ [][NextCache]_vars

(***************************************************************************)
(* SpecAllow: the goroutines call Allow on the limiters of a new           *)
(* APIClient, at any time and in any interleaving.                         *)
(***************************************************************************)
InitAllow ==
    /\ now = 0
    /\ GatewayIdle
    /\ bucket = NoCall.pre
    /\ bstat = NoBStat
    /\ rl = NoLimiter
    /\ rstat = NoStat

\* a goroutine calls rateLimiters[p].Allow()
CallAllow(self, p) ==
    /\ procs[self].pc = "idle"
    /\ astat.done["jikan"] + astat.done["tmdb"]
         + Cardinality({q \in Procs : procs[q].pc # "idle"}) < MaxAllowCalls
    /\ procs' = [procs EXCEPT ![self] =
            [IdleProc EXCEPT !.pc = "al_lock", !.op = "Allow", !.provider = p]]
    /\ UNCHANGED <<now, bvars, lvars, rateLimiters, astat, cvars>>

\* Allow returns to that goroutine
AllowReturn(self) ==
    LET p == procs[self].provider IN
    /\ procs[self].pc = "al_ret"
    /\ procs[self].op = "Allow"
    /\ astat' = [astat EXCEPT !.done[p] = @ + 1,
                               !.admitted[p] = IF procs[self].allowed THEN @ + 1 ELSE @]
    /\ procs' = [procs EXCEPT ![self] = IdleProc]
    /\ UNCHANGED <<now, bvars, lvars, rateLimiters, cvars>>

\* time passes
AllowTick ==
    /\ now < AllowMaxTime
    /\ now' = now + 1
    /\ UNCHANGED <<bvars, lvars, gvars>>

NextAllow ==
    \/ \E self \in Procs, p \in Providers : CallAllow(self, p)
    \/ \E self \in Procs : AllowStep(self)
    \/ \E self \in Procs : AllowReturn(self)
    \/ AllowTick

SpecAllow == InitAllow /\ [][NextAllow]_vars

(***************************************************************************)
(* SpecLimiter: one of the two limiters NewAPIClient builds, called by one *)
(* caller at arbitrary times.  A window of the length of the longer        *)
(* refillRate may be opened once, at any time; the admissions that fall    *)
(* in it are counted.                                                      *)
(***************************************************************************)
\* the longer of the two windows, and the smaller of the two limits over it
LongWindow(r) ==
    IF r.secondLimiter.refillRate > r.minuteLimiter.refillRate
    THEN r.secondLimiter.refillRate ELSE r.minuteLimiter.refillRate

LimitOver(t, w) == t.maxTokens * (w \div t.refillRate)

StricterLimit(r) ==
    min(LimitOver(r.secondLimiter, LongWindow(r)), LimitOver(r.minuteLimiter, LongWindow(r)))

\* what a call that turned r into r2 took from each bucket: the tokens the
\* bucket held once refilled at the call's clock reading, less those it holds now
Taken(r, r2, c1, c2) ==
    [second |-> refill(r.secondLimiter, c1).tokens - r2.secondLimiter.tokens,
     minute |-> IF r2.minuteLimiter = r.minuteLimiter THEN 0
                ELSE refill(r.minuteLimiter, c2).tokens - r2.minuteLimiter.tokens]

InitLimiter ==
    /\ now = 0
    /\ rl \in {JikanLimiter(now, now), TmdbLimiter(now, now)}
    /\ rstat = [NoStat EXCEPT !.horizon = LimMaxTime]
    /\ bucket = NoCall.pre
    /\ bstat = NoBStat
    /\ GatewayIdle

InitWindow ==
    /\ now = 0
    /\ rl \in {JikanLimiter(now, now), TmdbLimiter(now, now)}
    /\ rstat = [NoStat EXCEPT !.horizon = WinMaxTime]
    /\ bucket = NoCall.pre
    /\ bstat = NoBStat
    /\ GatewayIdle

\* one call of rl.Allow() by the only caller; its two clock readings, taken
\* within one run of the function body, are the same second
LimiterAllow ==
    /\ LET r == Allow(rl, now, now) IN
        /\ rl' = r.limiter
        /\ rstat' = [rstat EXCEPT
                !.called = TRUE, !.ok = r.ok,
                !.took = Taken(rl, r.limiter, now, now),
                !.winCount = IF /\ r.ok
                                /\ rstat.winStart >= 0
                                /\ now < rstat.winStart + LongWindow(rl)
                             THEN @ + 1 ELSE @]
    /\ UNCHANGED <<now, bvars, gvars>>

\* time passes
LimiterTick ==
    /\ now < rstat.horizon
    /\ now' = now + 1
    /\ UNCHANGED <<lvars, bvars, gvars>>

\* the window [now, now + LongWindow) starts to be watched
OpenWindow ==
    /\ rstat.winStart < 0
    /\ rstat' = [rstat EXCEPT !.winStart = now]
    /\ UNCHANGED <<now, rl, bvars, gvars>>

NextLimiter == LimiterAllow \/ LimiterTick

SpecLimiter == InitLimiter /\ [][NextLimiter]_vars

NextWindow == LimiterAllow \/ LimiterTick \/ OpenWindow

SpecWindow == InitWindow /\ [][NextWindow]_vars

(***************************************************************************)
(* SpecBucket: one TokenBucket, built with arguments from small sets, and  *)
(* called at arbitrary times.                                              *)
(***************************************************************************)
InitBucket ==
    /\ now = 0
    /\ \E m \in 1..MaxCap, r \in 1..MaxRate : bucket = NewTokenBucket(m, r, now)
    /\ bstat = [t0 |-> now, calls |-> 0, admitted |-> 0, last |-> NoCall]
    /\ rl = NoLimiter
    /\ rstat = NoStat
    /\ GatewayIdle

\* one call of bucket.allow()
BucketAllow ==
    /\ bstat.calls < MaxCalls
    /\ LET r == allow(bucket, now) IN
        /\ bucket' = r.bucket
        /\ bstat' = [bstat EXCEPT !.calls = @ + 1,
                                  !.admitted = IF r.ok THEN @ + 1 ELSE @,
                                  !.last = [pre |-> bucket, at |-> now, ok |-> r.ok]]
    /\ UNCHANGED <<now, lvars, gvars>>

\* time passes
BucketTick ==
    /\ now < MaxTime
    /\ now' = now + 1
    /\ UNCHANGED <<bvars, lvars, gvars>>

NextBucket == BucketAllow \/ BucketTick

SpecBucket == InitBucket /\ [][NextBucket]_vars

(***************************************************************************)
(* The claims.                                                             *)
(***************************************************************************)

\* C1: a call of RateLimiter.Allow that returns false takes no token from the
\* short-window bucket and none from the long-window bucket.
RejectedCallTakesNothing ==
    (rstat.called /\ ~rstat.ok) => (rstat.took.second = 0 /\ rstat.took.minute = 0)

\* C2: a call of RateLimiter.Allow returns true only if, once refilled, each of
\* the two buckets held at least one token, and it takes exactly one from each.
AdmittedOnlyByBoth ==
    (rstat.called /\ rstat.ok) =>
        /\ rl.secondLimiter.tokens + rstat.took.second >= 1
        /\ rl.minuteLimiter.tokens + rstat.took.minute >= 1
        /\ rstat.took.second = 1
        /\ rstat.took.minute = 1

\* an admitted call that found exactly one token in a bucket refilled since
\* construction
AdmittedWithLastToken ==
    /\ rstat.called /\ rstat.ok
    /\ rl.secondLimiter.tokens = 0
    /\ rl.secondLimiter.lastRefill > 0

\* C3: the calls a TokenBucket built at t0 has admitted up to now never number
\* more than maxTokens + floor((now - t0) / refillRate).
AdmissionsBounded ==
    bstat.admitted <= bucket.maxTokens + ((now - bstat.t0) \div bucket.refillRate)

\* the bound is met after the bucket was emptied and refilled twice or more
AdmissionsMeetBound ==
    /\ bstat.admitted = bucket.maxTokens + ((now - bstat.t0) \div bucket.refillRate)
    /\ bstat.admitted >= bucket.maxTokens + 2

\* C5: 0 <= tokens <= maxTokens in every state of a TokenBucket.
TokensInRange == 0 <= bucket.tokens /\ bucket.tokens <= bucket.maxTokens

\* a call after an idle period whose refill was cut at maxTokens, and an
\* empty bucket
RefillWasCapped ==
    /\ bstat.last.at >= 0
    /\ bstat.last.pre.tokens + tokensToAdd(bstat.last.pre, bstat.last.at)
            > bucket.maxTokens
    /\ bstat.last.pre.tokens < bucket.maxTokens
    /\ bstat.last.ok

\* C4: over any interval as long as the longer window, a RateLimiter admits no
\* more calls than the stricter of its two window limits.
WindowWithinStricterLimit ==
    rstat.winStart >= 0 => rstat.winCount <= StricterLimit(rl)

\* C6: concurrent Allow calls on one limiter act one after the other.  Each
\* call leaves the buckets as the function body run alone on the limiter it
\* locked would, and returns that run's result; while nothing is refilled
\* (the clock still reads the second of construction) the calls admitted are
\* no more than the smaller bucket held, and once every call has returned the
\* buckets and the number admitted are those of the calls run in sequence.
AllowIsSerial ==
    /\ \A self \in Procs :
          procs[self].pc = "al_unlock" =>
            LET p == procs[self].provider
                r == Allow(procs[self].snap, procs[self].c1, procs[self].c2)
            IN /\ rateLimiters[p].secondLimiter = r.limiter.secondLimiter
               /\ rateLimiters[p].minuteLimiter = r.limiter.minuteLimiter
               /\ procs[self].allowed = r.ok
    /\ now = 0 =>
          \A p \in Providers :
            astat.admitted[p] <= min(NewRateLimiters(0)[p].secondLimiter.tokens,
                                     NewRateLimiters(0)[p].minuteLimiter.tokens)
    /\ (now = 0 /\ \A self \in Procs : procs[self].pc = "idle") =>
          \A p \in Providers :
            LET seq == AllowTimes(NewRateLimiters(0)[p], astat.done[p], 0)
            IN /\ rateLimiters[p] = seq.limiter
               /\ astat.admitted[p] = seq.admitted

\* one caller is between reading and writing the last token of the jikan
\* second bucket while another waits for the limiter's mutex
AllowContended ==
    \E a, b \in Procs :
        /\ a # b
        /\ now = 0
        /\ procs[a].pc = "al_second_write" /\ procs[a].provider = "jikan"
        /\ procs[b].pc = "al_lock" /\ procs[b].provider = "jikan"
        /\ rateLimiters["jikan"].secondLimiter.tokens = 1

\* the queries that have returned, and what each went through
Times(path, part) == Cardinality({i \in DOMAIN path : path[i] = part})
Went(me, part) == Times(me.path, part) > 0
Missed(me) == ~me.found
Admitted(me) == Went(me, "limiter") /\ me.allowed
Rejected(me) == Went(me, "limiter") /\ ~me.allowed
Failures == {"transport_error", "decode_error"}

\* C7: a query that misses the cache and is admitted makes exactly one
\* network call, a query that hits the cache or is rejected makes none, and
\* no query makes more than one.
OneCallPerAdmittedMiss ==
    \A self \in Returned :
        LET me == procs[self] IN
        /\ (Missed(me) /\ Admitted(me)) => Times(me.path, "network") = 1
        /\ (me.found \/ Rejected(me)) => Times(me.path, "network") = 0
        /\ Times(me.path, "network") <= 1

\* C8: a query whose lookup hits returns the cached payload, and neither
\* calls the limiter of its provider nor the network.
HitReturnsFromCache ==
    \A self \in Returned :
        LET me == procs[self] IN
        me.found =>
            /\ me.path = <<"cache">>
            /\ me.ret = [payload |-> me.data, err |-> "nil"]
            /\ me.data.items \in Bodies \cup {"empty"}

\* a query has returned a payload some earlier query cached
HitReturned ==
    \E self \in Returned :
        /\ procs[self].found
        /\ procs[self].ret.payload.items = "r2"
        /\ procs[self].key \in DOMAIN cache

\* C9: a query the limiter rejects returns the rate-limit error, makes no
\* network call and writes nothing to the cache.
RejectedFailsFast ==
    \A self \in Returned :
        LET me == procs[self] IN
        Rejected(me) =>
            /\ me.ret = [payload |-> NoData, err |-> "rate_limit"]
            /\ ~Went(me, "network")
            /\ ~Went(me, "store")

\* a SearchAnime query has been rejected
RejectedReturned ==
    \E self \in Returned :
        /\ Rejected(procs[self])
        /\ procs[self].op = "SearchAnime"

\* C10 as claimed: a query whose request fails in transport, or whose
\* response does not decode, returns an error and has changed nothing in
\* the cache.
FailureLeavesCacheAsItWas ==
    \A self \in Returned :
        LET me == procs[self] IN
        me.outcome \in Failures =>
            /\ me.ret = [payload |-> NoData, err |-> me.outcome]
            /\ ~Went(me, "store")
            /\ ~Went(me, "evict")

\* C10 as amended: such a query returns an error and stores nothing in the
\* cache: it creates and overwrites no entry.  (Its own lookup may have
\* deleted the entry of its key.)
FailureStoresNothing ==
    \A self \in Returned :
        LET me == procs[self] IN
        me.outcome \in Failures =>
            /\ me.ret = [payload |-> NoData, err |-> me.outcome]
            /\ ~Went(me, "store")

\* a query whose response did not decode has returned, after its lookup
\* deleted the expired entry of its key
FailureAfterEviction ==
    \E self \in Returned :
        /\ procs[self].outcome = "decode_error"
        /\ Went(procs[self], "evict")
        /\ procs[self].key \notin DOMAIN cache

\* the getCache calls that have returned; the step in which a getCache call
\* looks its key up; the step in which one deletes
GetReturned == {q \in Returned : procs[q].op = "getCache"}
LooksUp(self) == procs[self].pc = "gc_rlock" /\ procs'[self].pc # "gc_rlock"
Deletes(self) == procs[self].pc = "gc_delete" /\ procs'[self].pc = "gc_rlock2"

\* C12: in every interleaving of getCache, setCache and the clock, a lookup
\* reports found only for an entry that is in the cache and whose ExpiresAt
\* is not earlier than the time of the lookup, and with that entry's data.
NoExpiredHit ==
    [][\A self \in Procs :
          (LooksUp(self) /\ procs'[self].found) =>
              /\ procs[self].key \in DOMAIN cache
              /\ cache[procs[self].key].ExpiresAt >= now
              /\ procs'[self].data = cache[procs[self].key].Data]_vars

\* a lookup has found the entry of its key expired, and reported no hit
ExpiredLookedUp ==
    \E self \in Procs :
        /\ procs[self].op = "getCache"
        /\ procs[self].pc = "gc_runlock"
        /\ ~procs[self].found
        /\ cache[procs[self].key].ExpiresAt < now

\* C13: getCache(k) after setCache(k, v, ttl), ttl > 0, with no call on k in
\* between or meanwhile, and before ttl has elapsed, returns (v, true).
RoundTrip ==
    \A self \in GetReturned :
        LET me == procs[self] IN
        (/\ me.others = {}
         /\ me.seen.last.op = "setCache"
         /\ me.seen.last.ttl > 0
         /\ now < me.seen.last.at + me.seen.last.ttl) =>
            /\ me.found
            /\ me.ret.payload = me.seen.last.data

\* a getCache has returned the payload stored a second before, with a ttl
\* of two
RoundTripMade ==
    \E self \in GetReturned :
        LET me == procs[self] IN
        /\ me.others = {}
        /\ me.seen.last.op = "setCache"
        /\ me.seen.last.ttl = 2
        /\ now = me.seen.last.at + 1
        /\ me.ret.payload.items = "r2"

\* C14: getCache(k) made after the ExpiresAt of k's entry has passed, with no
\* other call on k meanwhile, returns not-found, and removes the entry before
\* it returns: the deletion leaves one entry fewer, and k is absent.
ExpiredIsEvicted ==
    /\ [](\A self \in GetReturned :
            LET me == procs[self] IN
            (me.others = {} /\ me.seen.expired) =>
                /\ ~me.found
                /\ me.ret.payload = NoData
                /\ me.key \notin DOMAIN cache
                /\ Went(me, "evict"))
    /\ [][\A self \in Procs :
            (Deletes(self) /\ procs[self].others = {} /\ procs[self].seen.expired) =>
                /\ Cardinality(DOMAIN cache') = Cardinality(DOMAIN cache) - 1
                /\ procs[self].key \notin DOMAIN cache']_vars

\* a getCache has returned not-found for an entry stored with a ttl of one
\* and looked up two seconds later, the other key's entry still cached
EvictedReturned ==
    \E self \in GetReturned :
        LET me == procs[self] IN
        /\ me.others = {}
        /\ me.seen.expired
        /\ me.seen.last.op = "setCache"
        /\ me.seen.last.ttl = 1
        /\ DOMAIN cache = CacheKeys \ {me.key}

\* C15: of the getCache calls that race on one expired key, no setCache on it
\* meanwhile, each returns not-found with the key absent; a deletion of a key
\* already removed changes nothing, and no deletion touches another entry.
ExpiredRaceIsHarmless ==
    /\ [](\A self \in GetReturned :
            LET me == procs[self] IN
            (me.others = {"getCache"} /\ me.seen.expired) =>
                /\ ~me.found
                /\ me.ret.payload = NoData
                /\ me.key \notin DOMAIN cache)
    /\ [][\A self \in Procs :
            Deletes(self) =>
                /\ procs[self].key \notin DOMAIN cache => cache' = cache
                /\ \A k \in DOMAIN cache \ {procs[self].key} :
                      k \in DOMAIN cache' /\ cache'[k] = cache[k]]_vars

\* a getCache that raced with another on an expired key has returned, its
\* own deletion having found the key already removed, with the other key's
\* entry cached
DuplicateDeletion ==
    \E self \in GetReturned :
        LET me == procs[self] IN
        /\ me.others = {"getCache"}
        /\ me.seen.expired
        /\ ~Went(me, "evict")
        /\ DOMAIN cache = CacheKeys \ {me.key}

\* C19: of the calls made on a new TokenBucket of capacity C, the first C are
\* all admitted, whatever the time between them.
FirstCallsAdmitted ==
    bstat.calls <= bucket.maxTokens => bstat.admitted = bstat.calls

\* as many calls as the capacity, three, have been made, the last one after
\* time enough for a refill had passed, and after a wait
CapacityCallsMade ==
    /\ bucket.maxTokens = MaxCap
    /\ bstat.calls = bucket.maxTokens
    /\ bstat.last.at > bstat.last.pre.lastRefill + bucket.refillRate
    /\ bstat.last.pre.lastRefill > bstat.t0
    /\ bstat.last.ok

\* the locks a goroutine holds, and those each position of a query allows
HeldBy(self) ==
    (IF self \in mu THEN {"mu"} ELSE {})
    \cup (IF self \in cacheMu.readers \/ cacheMu.writer = self THEN {"cacheMu"} ELSE {})
    \cup {p \in Providers : rateLimiters[p].mu = self}
HeldAt(me) ==
    CASE me.pc \in {"gc_runlock", "gc_ret", "gc_delete", "sc_store"} -> {"cacheMu"}
      [] me.pc = "rl_runlock" -> {"mu"}
      [] me.pc = "al_unlock" -> {me.provider}
      [] OTHER -> {}

\* C16: a query that is at its HTTP request holds neither mu, nor cacheMu,
\* nor the mutex of a RateLimiter; a lock is held only within the cache
\* lookup, the limiter lookup, the admission check and the cache write.
NoLockAcrossRequest ==
    \A self \in Procs :
        /\ procs[self].pc = "http" => HeldBy(self) = {}
        /\ HeldBy(self) \subseteq HeldAt(procs[self])

\* a query is at its request while the other goroutine holds the mutex of
\* the limiter that admitted it
RequestBesideLock ==
    \E a, b \in Procs :
        /\ procs[a].pc = "http"
        /\ rateLimiters[procs[a].provider].mu = b
        /\ procs[b].pc = "al_unlock"

\* the path of a query without the eviction mark
RECURSIVE Steps(_)
Steps(path) ==
    IF path = <<>> THEN <<>>
    ELSE IF Head(path) = "evict" THEN Steps(Tail(path))
    ELSE <<Head(path)>> \o Steps(Tail(path))

\* C17: a query that has returned took one path of the per-query state
\* machine: a hit; a miss and a rejection; a miss, an admission and a failed
\* request; or a miss, an admission, a request answered and a cache write.
\* It carries a payload and no error, or an error and no payload.
OnePathPerQuery ==
    \A self \in Returned :
        LET me == procs[self] IN
        \/ /\ Steps(me.path) = <<"cache">>
           /\ me.found
           /\ me.ret.err = "nil" /\ me.ret.payload # NoData
        \/ /\ Steps(me.path) = <<"cache", "limiter">>
           /\ ~me.found /\ ~me.allowed
           /\ me.ret = [payload |-> NoData, err |-> "rate_limit"]
        \/ /\ Steps(me.path) = <<"cache", "limiter", "network">>
           /\ ~me.found /\ me.allowed /\ me.outcome \in Failures
           /\ me.ret = [payload |-> NoData, err |-> me.outcome]
        \/ /\ Steps(me.path) = <<"cache", "limiter", "network", "store">>
           /\ ~me.found /\ me.allowed /\ me.outcome \in Outcomes \ Failures
           /\ me.ret.err = "nil" /\ me.ret.payload # NoData

\* the provider whose limiter a query is to ask
OpProvider(op) ==
    CASE op = "SearchAnime" -> "jikan"
      [] op = "SearchTMDB"  -> "tmdb"
      [] OTHER              -> "none"

\* C20: the RateLimiter of a provider changes, buckets or mutex, only in a
\* step of a query for that provider; a goroutine holds only the mutex of
\* its own provider's limiter; and a query waiting to enter Allow can go on
\* whenever the mutex of its own provider's limiter is free.
ProviderIsolation ==
    /\ [][\A p \in Providers :
            rateLimiters'[p] # rateLimiters[p] =>
                \E self \in Procs : /\ procs'[self] # procs[self]
                                    /\ OpProvider(procs[self].op) = p]_vars
    /\ [](\A self \in Procs :
            /\ \A p \in Providers :
                  rateLimiters[p].mu = self => OpProvider(procs[self].op) = p
            /\ (/\ procs[self].pc = "al_enter"
                /\ rateLimiters[OpProvider(procs[self].op)].mu = Free)
                    => ENABLED AllowEnter(self))

\* a SearchAnime query is about to enter Allow, the jikan limiter free, while
\* the other goroutine holds the mutex of the tmdb limiter
OtherLimiterHeld ==
    \E a, b \in Procs :
        /\ procs[a].pc = "al_enter" /\ procs[a].op = "SearchAnime"
        /\ rateLimiters["jikan"].mu = Free
        /\ rateLimiters["tmdb"].mu = b

\* C11: when a query has succeeded with a network call, the next query of
\* the same key, made before the hour of the cache entry has elapsed, returns
\* the same payload with no network call: the two make one call together.
SecondQueryFromCache ==
    \A i, j \in DOMAIN astat :
        (/\ i < j
         /\ astat[i].key = astat[j].key
         /\ \A k \in DOMAIN astat : (i < k /\ k < j) => astat[k].key # astat[i].key
         /\ astat[i].ret.err = "nil" /\ astat[i].calls = 1
         /\ astat[j].at < astat[i].at + CacheTTL) =>
            /\ astat[j].ret = astat[i].ret
            /\ astat[j].calls = 0
            /\ astat[i].calls + astat[j].calls = 1

\* a query answered in the second of construction, and the same query
\* repeated a second later, after a query of another key
RepeatedQuery ==
    \E i, j \in DOMAIN astat :
        /\ j = i + 2
        /\ astat[i].key = astat[j].key
        /\ astat[i + 1].key # astat[i].key
        /\ astat[i].ret.payload.items = "r2" /\ astat[i].calls = 1
        /\ astat[i].at = 0 /\ astat[j].at = 1

\* the queries of the list that ended as given
Ended(err, calls) ==
    {i \in DOMAIN astat : astat[i].ret.err = err /\ astat[i].calls = calls}

\* four queries of four keys in the second of construction, every request
\* answered
FourAtOnce ==
    /\ Len(astat) = 4
    /\ Cardinality({astat[i].key : i \in DOMAIN astat}) = 4
    /\ \A i \in DOMAIN astat : astat[i].at = 0 /\ astat[i].ret.err \notin Failures

\* C18: of four SearchAnime queries of four keys made on a new APIClient
\* within the second of its construction, every request answered, three
\* succeed with a network call each and one, the last, gets the rate-limit
\* error with no network call.
FourthIsRejected ==
    FourAtOnce =>
        /\ Ended("nil", 1) = {1, 2, 3}
        /\ Ended("rate_limit", 0) = {4}

\* the four queries have been made, the answers of the three all different
\* in kind
FourQueriesMade ==
    /\ FourAtOnce
    /\ astat[1].ret.payload.items = "r1"
    /\ astat[2].ret.payload.items = "r2"
    /\ astat[4].key = JikanKey("q4")

\* C22: a call of allow() that adds k > 0 tokens moves lastRefill forward by
\* k * refillRate, and a call that adds none leaves lastRefill as it was.
LastRefillKeepsFraction ==
    bstat.last.at >= 0 =>
        bucket.lastRefill = bstat.last.pre.lastRefill
            + tokensToAdd(bstat.last.pre, bstat.last.at) * bucket.refillRate

\* C29: once a bucket has rejected a call, a call made refillRate or more
\* after the lastRefill the bucket then has is admitted, however many calls
\* were rejected before it; and a rejected call leaves the bucket as it was.
RejectionsDoNotPostpone ==
    bstat.last.at >= 0 =>
        /\ (/\ bstat.calls - bstat.admitted >= 1
            /\ bstat.last.at >= bstat.last.pre.lastRefill + bucket.refillRate)
                => bstat.last.ok
        /\ ~bstat.last.ok => bucket = bstat.last.pre

\* a bucket that has rejected two calls or more admits a call made exactly
\* refillRate, more than a second, after its lastRefill
AdmittedAfterRejections ==
    /\ bstat.last.at >= 0
    /\ bstat.last.ok
    /\ bstat.calls - bstat.admitted >= 2
    /\ bstat.last.pre.tokens = 0
    /\ bucket.refillRate > 1
    /\ bstat.last.at = bstat.last.pre.lastRefill + bucket.refillRate

\* the step in which a setCache call stores
Stores(self) == procs[self].pc = "sc_store" /\ procs'[self].pc = "done"

\* C23: in every interleaving getCache deletes only an expired entry: an
\* entry that a setCache stored after the expiry check, before the delete,
\* is not removed.
OnlyExpiredRemoved ==
    [][\A self \in Procs :
          (Deletes(self) /\ procs[self].key \in DOMAIN cache) =>
              /\ Expired(cache[procs[self].key], now)
              /\ procs[self].key \notin DOMAIN cache']_vars

\* C26: an entry leaves the cache only in the delete of a getCache of its
\* key, and is then expired; an entry changes only in the store of a setCache
\* of its key; nothing else, the passage of time included, removes or alters
\* an entry.
RemovedOnlyWhenExpired ==
    [][\A k \in DOMAIN cache :
          /\ k \notin DOMAIN cache' =>
                \E self \in Procs : /\ Deletes(self)
                                    /\ procs[self].key = k
                                    /\ Expired(cache[k], now)
          /\ (k \in DOMAIN cache' /\ cache'[k] # cache[k]) =>
                \E self \in Procs : Stores(self) /\ procs[self].key = k]_vars

BucketNames == {"secondLimiter", "minuteLimiter"}

\* C21: the tokens of a bucket grow only in the refill of an Allow call, by
\* the time elapsed; no step of a query after its admission, whether its
\* request fails, its response does not decode or it returns, changes a
\* limiter: a token taken is not given back.
TokensNeverRefunded ==
    /\ [][\A p \in Providers, b \in BucketNames :
            rateLimiters'[p][b].tokens > rateLimiters[p][b].tokens =>
                /\ rateLimiters'[p][b].lastRefill = now
                /\ rateLimiters[p][b].lastRefill < now
                /\ \E self \in Procs : /\ procs[self].pc = "al_enter"
                                        /\ procs'[self].pc = "al_unlock"
                                        /\ procs[self].provider = p]_vars
    /\ [][\A self \in Procs :
            (/\ procs[self].pc \in {"al_ret", "http", "sc_lock", "sc_store", "done"}
             /\ procs'[self] # procs[self]) => rateLimiters' = rateLimiters]_vars

\* a SearchAnime query that took the last token of the second bucket has
\* returned the error of a response that did not decode
TokenSpentOnFailure ==
    \E self \in Returned :
        /\ procs[self].outcome = "decode_error"
        /\ procs[self].provider = "jikan"
        /\ now = 0
        /\ rateLimiters["jikan"].secondLimiter.tokens = 0

\* C24: an answer with a failure status whose body decodes is not stored in
\* the cache and is not returned as a result: every entry of the cache holds
\* the results of a successful answer.
OnlySuccessCached ==
    /\ \A self \in Returned :
          procs[self].outcome = "status_error" =>
              /\ procs[self].ret.err # "nil"
              /\ ~Went(procs[self], "store")
    /\ \A k \in DOMAIN cache : cache[k].Data.items \in Bodies

\* C25: setCache overwrites whatever is there.  A query that missed and
\* succeeded has made one network call, and when its setCache has run the
\* cache holds, for its key, its payload with ExpiresAt an hour from then;
\* the store adds no second entry and touches no other key.  Of two
\* queries of one key that both missed and succeeded, the cache so holds the
\* entry of the one whose setCache ran last.
LastWriterWins ==
    /\ [](\A self \in Returned :
            LET me == procs[self] IN
            /\ Went(me, "store") =>
                  cache[me.key] = [Data |-> me.data, ExpiresAt |-> now + CacheTTL]
            /\ (~me.found /\ me.ret.err = "nil") => Times(me.path, "network") = 1)
    /\ [][\A self \in Procs :
            Stores(self) =>
                /\ DOMAIN cache' = DOMAIN cache \cup {procs[self].key}
                /\ \A k \in DOMAIN cache \ {procs[self].key} : cache'[k] = cache[k]]_vars

\* a query that missed and was answered r1 is in setCache, holding the write
\* lock, about to store over the r2 that the other query, which had missed
\* as well, stored in the same second
SecondWriter ==
    \E self \in Procs :
        LET me == procs[self] IN
        /\ me.pc = "sc_store"
        /\ ~me.found /\ Went(me, "network")
        /\ me.data.items = "r1"
        /\ me.key \in DOMAIN cache
        /\ cache[me.key] = [Data |-> [me.data EXCEPT !.items = "r2"],
                            ExpiresAt |-> now + CacheTTL]

\* C27: a SearchTMDB call with a media type other than movie and tv returns
\* an error with no network call and no cache write, and no step of it
\* changes the token counts of the tmdb limiter.
UnsupportedChangesNothing ==
    /\ [](\A self \in Returned :
            LET me == procs[self] IN
            (me.op = "SearchTMDB" /\ Endpoint(me.mediaType) = "none") =>
                /\ me.ret.err \notin {"nil", "none"}
                /\ ~Went(me, "network")
                /\ ~Went(me, "store"))
    /\ [][\A self \in Procs :
            (/\ procs[self].op = "SearchTMDB"
             /\ Endpoint(procs[self].mediaType) = "none"
             /\ procs'[self] # procs[self]) =>
                \A b \in BucketNames :
                    rateLimiters'["tmdb"][b].tokens = rateLimiters["tmdb"][b].tokens]_vars

\* C28: the registry holds the limiters of jikan and tmdb and no other, every
\* bucket keeps the maxTokens and refillRate NewAPIClient gave it, and no
\* query returns the "rate limiter not configured" error.
ConfigurationFixed ==
    /\ DOMAIN rateLimiters = {"jikan", "tmdb"}
    /\ rateLimiters["jikan"].secondLimiter.maxTokens = JikanSecondMax
    /\ rateLimiters["jikan"].secondLimiter.refillRate = JikanSecondRate
    /\ rateLimiters["jikan"].minuteLimiter.maxTokens = JikanMinuteMax
    /\ rateLimiters["jikan"].minuteLimiter.refillRate = JikanMinuteRate
    /\ \A b \in BucketNames :
          /\ rateLimiters["tmdb"][b].maxTokens = TmdbMax
          /\ rateLimiters["tmdb"][b].refillRate = TmdbRate
    /\ \A self \in Procs : procs[self].ret.err # "not_configured"

\* a SearchTMDB query has found its limiter, after the buckets were refilled
\* and drawn on in an earlier call
FoundAfterRefill ==
    \E self \in Procs :
        /\ procs[self].pc = "al_enter"
        /\ procs[self].op = "SearchTMDB"
        /\ rateLimiters["tmdb"].secondLimiter.lastRefill > 0
        /\ rateLimiters["tmdb"].secondLimiter.tokens < TmdbMax

\* C30: under fair scheduling every query that was started returns, whatever
\* the other goroutine does and whatever the requests come to; and when no
\* query is in progress nobody holds cacheMu, mu or the mutex of a limiter.
AllCallsComplete ==
    /\ \A self \in Procs : (procs[self].pc # "idle") ~> (procs[self].pc = "idle")
    /\ []((\A self \in Procs : procs[self].pc = "idle") =>
            /\ cacheMu = NoLocks
            /\ mu = {}
            /\ \A p \in Providers : rateLimiters[p].mu = Free)

\* a getCache that has deleted an expired entry is to take the read lock
\* again while the other goroutine waits in setCache for the write lock
RetakeBesideWriter ==
    \E a, b \in Procs :
        /\ procs[a].pc = "gc_rlock2"
        /\ procs[b].pc = "sc_lock"
        /\ ~CanRLock

====
